---- MODULE Spec2Model ----
(***************************************************************************)
(* Twin experiment of the data-assimilation notebooks: the driver builds a *)
(* reference Lorenz-63 trajectory with forwardModel_r, derives noisy       *)
(* observations, runs myEnKF and compares the estimate with the truth.     *)
(*                                                                         *)
(* Arithmetic.  The notebooks compute in double precision.  Here every     *)
(* real is a fixed-point number of resolution 1 (an integer) and every     *)
(* division rounds to the nearest integer (RoundDiv); times are exact      *)
(* rationals [n, d].  One time unit is TicksPerUnit ticks and the inputs   *)
(* T, dt, dtobs are whole numbers of ticks.                                *)
(***************************************************************************)
EXTENDS Integers, Sequences, FiniteSets, TLC

\* ------------------------------------------------------------- bounds
MaxT == 3            \* total integration time T, in ticks
MaxDtObs == 2        \* time between observations dtobs, in ticks
MaxNe == 2           \* ensemble size
TicksPerUnit == 32   \* ticks in one nondimensional time unit

\* ------------------------------------------------------------- arithmetic
\* a / b rounded to the nearest integer (half up), b # 0
RoundDiv(a, b) ==
  IF b > 0 THEN (2 * a + b) \div (2 * b)
           ELSE (2 * (0 - a) + (0 - b)) \div (2 * (0 - b))

\* int(np.ceil(a / b)) for a >= 0, b > 0
CeilDiv(a, b) == (a + b - 1) \div b

\* int(a / b) for a >= 0, b > 0
FloorDiv(a, b) == a \div b

RECURSIVE SumTo(_, _)
\* sum of f[1] .. f[n]
SumTo(f, n) == IF n = 0 THEN 0 ELSE f[n] + SumTo(f, n - 1)

\* the matrix product A B of an (m x n) and an (n x p) matrix, p given
MatMul(A, B, p) ==
  [i \in 1..Len(A) |->
     [j \in 1..p |-> SumTo([l \in 1..Len(B) |-> A[i][l] * B[l][j]], Len(B))]]

\* the matrix-vector product A v
MatVec(A, v) ==
  [i \in 1..Len(A) |-> SumTo([l \in 1..Len(v) |-> A[i][l] * v[l]], Len(v))]

\* the transpose of an (m x n) matrix, n given
Transpose(A, n) == [j \in 1..n |-> [i \in 1..Len(A) |-> A[i][j]]]

\* A without row i and column j
Minor(A, i, j) ==
  [a \in 1..(Len(A) - 1) |->
     [c \in 1..(Len(A) - 1) |->
        A[IF a < i THEN a ELSE a + 1][IF c < j THEN c ELSE c + 1]]]

RECURSIVE Det(_)
\* the determinant, by expansion along the first row (1 for the 0 x 0 matrix)
Det(A) ==
  IF Len(A) = 0 THEN 1
  ELSE SumTo([j \in 1..Len(A) |->
                (IF j % 2 = 1 THEN 1 ELSE 0 - 1) * A[1][j] * Det(Minor(A, 1, j))],
             Len(A))

\* the adjugate: A Adj(A) = Det(A) I
Adj(A) ==
  [i \in 1..Len(A) |->
     [j \in 1..Len(A) |->
        (IF (i + j) % 2 = 0 THEN 1 ELSE 0 - 1) * Det(Minor(A, j, i))]]

\* ------------------------------------------------------------- forward model
\* the right-hand side with X + Y for X - Y in the first equation
LorenzSignSlip(x, r, Pr, b) ==
  << 0 - Pr * (x[1] + x[2]),
     (0 - x[1] * x[3]) + r * x[1] - x[2],
     x[1] * x[2] - RoundDiv(b.n * x[3], b.d) >>

\* the right-hand side with r for r X in the second equation
LorenzMissingFactor(x, r, Pr, b) ==
  << 0 - Pr * (x[1] - x[2]),
     (0 - x[1] * x[3]) + r - x[2],
     x[1] * x[2] - RoundDiv(b.n * x[3], b.d) >>

\* the right-hand side of the Lorenz-63 system, b a rational [n, d]
Lorenz(x, r, Pr, b) ==
  << 0 - Pr * (x[1] - x[2]),
     (0 - x[1] * x[3]) + r * x[1] - x[2],
     x[1] * x[2] - RoundDiv(b.n * x[3], b.d) >>

\* x + (hn / hd) k
Axpy(x, k, hn, hd) == [c \in 1..3 |-> x[c] + RoundDiv(hn * k[c], hd)]

\* one explicit Runge-Kutta step of order 4 and size h = [n, d]
RK4Step(x, h, r, Pr, b) ==
  LET k1 == Lorenz(x, r, Pr, b)
      k2 == Lorenz(Axpy(x, k1, h.n, 2 * h.d), r, Pr, b)
      k3 == Lorenz(Axpy(x, k2, h.n, 2 * h.d), r, Pr, b)
      k4 == Lorenz(Axpy(x, k3, h.n, h.d), r, Pr, b)
  IN  Axpy(x, [c \in 1..3 |-> k1[c] + 2 * k2[c] + 2 * k3[c] + k4[c]],
           h.n, 6 * h.d)

\* t2 - t1 for two rationals
TimeDiff(t1, t2) == [n |-> t2.n * t1.d - t1.n * t2.d, d |-> t1.d * t2.d]

\* fw.forwardModel_r(x0, time, rayleigh, prandtl, b): the trajectory as the
\* sequence of its columns, one per entry of time
forwardModel_r(x0, time, r, Pr, b) ==
  LET traj[k \in 1..Len(time)] ==
        IF k = 1 THEN x0
        ELSE RK4Step(traj[k - 1], TimeDiff(time[k - 1], time[k]), r, Pr, b)
  IN  [k \in 1..Len(time) |-> traj[k]]

\* ------------------------------------------------------------- driver
\* Matrices with a time axis (xt, y, xEnKF, x_ens[e]) are sequences of columns;
\* H, R and the gain are sequences of rows.

VARIABLES
  cfg,        \* the parameters set in the notebook cells (fixed for a run)
  pc,         \* the position of the run
  n_steps, time, xt,                 \* reference trajectory cell
  H, nobs, gap, time_obs, R, y,      \* synthetic observations cell
  args,       \* myEnKF: the arguments of the call
  iobs,       \* myEnKF: the current assimilation cycle, 1..nobs (nobs+1: the last forecast)
  ens,        \* myEnKF: the ensemble, member -> state vector
  propagated, \* myEnKF: the members propagated in the current phase
  seg,        \* myEnKF: member -> its forward-model trajectory of the current phase
  xf,         \* myEnKF: the forecast ensemble of the last update
  eps,        \* myEnKF: member -> observation perturbation of the last update
  gain,       \* myEnKF: the gain of the last update, [Kn, det] with K = Kn / det
  xm, xe,     \* myEnKF: the mean and member trajectories being recorded
  xa,         \* history: the post-update ensemble of every completed cycle
  calls,      \* history: the forward-model invocations of myEnKF
  ncalls,     \* history: how many invocations were made
  phases,     \* history: the phases of myEnKF completed so far
  xEnKF, x_ens, \* the values returned to the driver
  x1, x2, x3,  \* forward-model notebook: x (the reference run) and the two perturbed runs
  K_index,     \* K-index: the list K_calc returned
  K_X, K_Y,    \* K-index: analyse_day's indices from the X and the Y residual
  K_ours,      \* K-index: analyse_day's determined K of every interval
  date,        \* Bartels plot: the calendar date of the current row of the index
  elapsed,     \* history: how many days the index has advanced
  bartrot, bartrotday, hourofday,   \* Bartels plot: the results in 04a_SHA1
  bartrot_vis, bartrotday_vis,      \* Bartels plot: the results in 01a_Visualising
  input_data,  \* ground observations: the rows load_data returned
  track,       \* field-line tracing: the points (rad, th, ph) stored so far
  step,        \* field-line tracing: the iteration counter
  bxyz, lamb,  \* field-line tracing: the field at the last point and step_size / |B|
  newrad, newth, newph,   \* field-line tracing: the point last computed
  conjugate,   \* field-line tracing: the conjugate point printed, in degrees
  dph,         \* greatcircle: the value dlong(ph1, ph2) returned
  lhs,         \* geomagnetic_model: the equations of condition, row by row
  rhs,         \* geomagnetic_model: the data, one value per row
  linex,       \* geomagnetic_model: the X line of the datum in hand
  liney,       \* geomagnetic_model: the Y line of the datum in hand
  linez,       \* geomagnetic_model: the Z line of the datum in hand
  iln          \* geomagnetic_model: the row counter

vars == << cfg, pc, n_steps, time, xt, H, nobs, gap, time_obs, R, y, args, iobs, ens,
           propagated, seg, xf, eps, gain, xm, xe, xa, calls, ncalls, phases, xEnKF, x_ens,
           x1, x2, x3, K_index, K_X, K_Y, K_ours, date, elapsed, bartrot, bartrotday,
           hourofday, bartrot_vis, bartrotday_vis, input_data, track, step, bxyz, lamb,
           newrad, newth, newph, conjugate, dph,
           lhs, rhs, linex, liney, linez, iln >>

referenceVars == << n_steps, time, xt >>
obsVars == << H, nobs, gap, time_obs, R, y >>
enkfVars == << args, iobs, ens, propagated, seg, xf, eps, gain, xm, xe, xa, calls, ncalls, phases >>
resultVars == << xEnKF, x_ens >>
lorenzVars == << x1, x2, x3 >>
kindexVars == << K_index, K_X, K_Y, K_ours >>
bartelsVars == << date, elapsed, bartrot, bartrotday, hourofday, bartrot_vis,
                  bartrotday_vis >>
groundVars == << input_data >>
traceVars == << track, step, bxyz, lamb, newrad, newth, newph, conjugate >>
shaVars == << lhs, rhs, linex, liney, linez, iln >>
otherVars == << kindexVars, bartelsVars, groundVars, dph, shaVars >>
geomagVars == << otherVars, traceVars >>
driverVars == << referenceVars, obsVars, enkfVars, resultVars, lorenzVars >>

\* standard normal draws considered for one noise realization
NoiseDraws == {0 - 1, 1}

\* the realizations of a standard normal vector of length n considered
Realizations(n) ==
  {[j \in 1..n |-> IF j % 2 = 1 THEN s ELSE 0 - s] : s \in NoiseDraws}

\* the realizations of a standard normal (n x m) matrix considered, as columns
MatrixRealizations(n, m) ==
  {[j \in 1..m |-> [i \in 1..n |-> IF j % 2 = 1 THEN v[i] ELSE 0 - v[i]]] :
     v \in Realizations(n)}

\* the realizations of a standard normal 3-vector considered for the initial ensemble
InitialDraws == {<<1, 0, 0 - 1>>, <<0 - 1, 1, 0>>}

\* the realizations of the n initial draws considered: any draws for a small
\* ensemble; for four members and more, draws that span the state space, so
\* that the sample covariance can have full rank
EnsembleDraws(n) ==
  IF n < 4 THEN [1..n -> InitialDraws]
  ELSE {[i \in 1..n |-> IF i <= 3 THEN [c \in 1..3 |-> IF c = i THEN s ELSE 0] ELSE d] :
          s \in NoiseDraws, d \in InitialDraws \cup {<<0, 0, 0>>}}

\* the control parameters (rayleigh, prandtl, b) of the driver
ParameterTriples ==
  {[rayleigh |-> 35, prandtl |-> 10, b |-> [n |-> 8, d |-> 3]]}

\* the observation patterns named in the driver's comments
ObservedPatterns == {<<1, 1, 1>>, <<1, 0, 1>>, <<1, 0, 0>>}

\* the centres of the initial ensemble: the driver's, and one off the fixed
\* point of the model
EnsembleCentres == {<<0, 0, 0>>, <<1, 1, 1>>}

\* the parameter cells of the driver, with the values a user may set; the
\* second centre is taken with the ensemble without spread
Configurations ==
  {c \in [T : 1..MaxT, dt : {1}, dtobs : 1..MaxDtObs,
          WhichVariablesAreObserved : ObservedPatterns,
          sigobs : {0, 2}, Ne : 2..MaxNe, sigens : {0, 1},
          par : ParameterTriples, x0 : {<<0, 1, 2>>}, x0ens : EnsembleCentres] :
     c.dtobs >= c.dt /\ (c.x0ens = <<0, 0, 0>> \/ c.sigens = 0)}

Zeros(m, n) == [i \in 1..m |-> [j \in 1..n |-> 0]]

\* np.diag(np.tile(v, n))
Diag(v, n) == [i \in 1..n |-> [j \in 1..n |-> IF i = j THEN v ELSE 0]]

\* a tick count as a time, on a grid of den subdivisions per tick
Ticks(num, den) == [n |-> num, d |-> den * TicksPerUnit]

\* np.linspace(0., T, n): the grid without its last point
LinspaceNoEndpoint(T, n) == [k \in 1..n |-> Ticks((k - 1) * T, IF n = 0 THEN 1 ELSE n)]

\* np.linspace(0., T, n + 1, endpoint=True)
Linspace(T, n) == [k \in 1..(n + 1) |-> Ticks((k - 1) * T, IF n = 0 THEN 1 ELSE n)]

\* a[::g] cut to the same length: the entries from the first one on
StridedFromStart(a, g) == [j \in 1..((Len(a) - 1) \div g) |-> a[(j - 1) * g + 1]]

\* a[g::g] of a sequence a (0-based indices g, 2g, ...)
StridedFrom(a, g) == [j \in 1..((Len(a) - 1) \div g) |-> a[j * g + 1]]

\* int(np.sum(WhichVariablesAreObserved))
YSize(W) == SumTo(W, 3)

RECURSIVE BuildHNoAdvance(_, _, _, _)
\* the loop without iy = iy + 1: every observed variable lands in the first row
BuildHNoAdvance(W, Hm, ix, iy) ==
  IF ix > 3 THEN Hm
  ELSE IF W[ix] > 0 THEN BuildHNoAdvance(W, [Hm EXCEPT ![iy][ix] = 1], ix + 1, iy)
  ELSE BuildHNoAdvance(W, Hm, ix + 1, iy)

RECURSIVE BuildH(_, _, _, _)
\* the loop over ix that sets H[iy, ix] = 1 for every observed variable
BuildH(W, Hm, ix, iy) ==
  IF ix > 3 THEN Hm
  ELSE IF W[ix] > 0 THEN BuildH(W, [Hm EXCEPT ![iy][ix] = 1], ix + 1, iy + 1)
  ELSE BuildH(W, Hm, ix + 1, iy)

\* the observation operator built by the driver
ObservationOperator(W) == BuildH(W, Zeros(YSize(W), 3), 1, 1)

\* n_steps = int(np.ceil(T / dt))
NSteps(T, dt) == CeilDiv(T, dt)

\* nobs = int(np.ceil(T / dtobs)) - 1
NObs(T, dtobs) == CeilDiv(T, dtobs) - 1

\* gap = int(dtobs / dt)
Gap(dtobs, dt) == FloorDiv(dtobs, dt)

\* observations of the whole state: H is not applied to the truth
ObservationsOfFullState(Hm, traj, g, sig, z) ==
  LET cols == StridedFrom(traj, g)
  IN  [j \in 1..Len(cols) |->
         [i \in 1..3 |-> cols[j][i] + (IF i <= Len(Hm) THEN sig * z[j][i] ELSE 0)]]

\* y = np.dot(H, xt[:, gap::gap]) + np.dot(sqrt_s, z), z the normal draws
Observations(Hm, traj, g, sig, z) ==
  LET cols == StridedFrom(traj, g)
  IN  [j \in 1..Len(cols) |->
         LET Hx == MatVec(Hm, cols[j])
         IN  [i \in 1..Len(Hm) |-> Hx[i] + sig * z[j][i]]]

\* bartels_rotation has not been called
BlankBartels ==
  /\ date = <<>> /\ elapsed = 0 /\ bartrot = 0 /\ bartrotday = 0 /\ hourofday = 0
  /\ bartrot_vis = 0 /\ bartrotday_vis = 0

\* the tracing cell has not run
BlankTrace ==
  /\ track = <<>> /\ step = 0 /\ bxyz = <<>> /\ lamb = 0
  /\ newrad = 0 /\ newth = 0 /\ newph = 0 /\ conjugate = <<>>

\* no function of the geomagnetism notebooks has been called
BlankGeomag ==
  /\ K_index = <<>> /\ K_X = <<>> /\ K_Y = <<>> /\ K_ours = <<>>
  /\ BlankBartels
  /\ input_data = <<>>
  /\ BlankTrace
  /\ dph = 0
  /\ lhs = <<>> /\ rhs = <<>>
  /\ linex = <<>> /\ liney = <<>> /\ linez = <<>>
  /\ iln = 0

\* myEnKF has not been called, the forward-model notebook has not run
BlankFilter ==
  /\ args = <<>> /\ iobs = 0 /\ ens = <<>> /\ propagated = {} /\ seg = <<>> /\ xf = <<>>
  /\ eps = <<>> /\ gain = <<>> /\ xm = <<>> /\ xe = <<>> /\ xa = <<>>
  /\ calls = {} /\ ncalls = 0 /\ phases = <<>>
  /\ xEnKF = <<>> /\ x_ens = <<>>
  /\ x1 = <<>> /\ x2 = <<>> /\ x3 = <<>>
  /\ BlankGeomag

\* no cell has run yet
Blank ==
  /\ n_steps = 0 /\ time = <<>> /\ xt = <<>>
  /\ H = <<>> /\ nobs = 0 /\ gap = 0 /\ time_obs = <<>> /\ R = <<>> /\ y = <<>>
  /\ BlankFilter

Init ==
  /\ cfg \in Configurations
  /\ pc = "reference"
  /\ Blank

\* cell "Definition of the reference trajectory"; the forward model rejects
\* an initial state that is not a 3-vector, and the cell ends there
ReferenceTrajectory ==
  /\ pc = "reference"
  /\ n_steps' = NSteps(cfg.T, cfg.dt)
  /\ time' = Linspace(cfg.T, NSteps(cfg.T, cfg.dt))
  /\ IF Len(cfg.x0) = 3
     THEN /\ xt' = forwardModel_r(cfg.x0, time', cfg.par.rayleigh, cfg.par.prandtl,
                                  cfg.par.b)
          /\ pc' = "observations"
     ELSE /\ xt' = xt
          /\ pc' = "rejected"
  /\ UNCHANGED << cfg, geomagVars, lorenzVars, obsVars, enkfVars, resultVars >>

\* cell "Creation of the catalog of synthetic observations"
SyntheticObservations ==
  /\ pc = "observations"
  /\ H' = ObservationOperator(cfg.WhichVariablesAreObserved)
  /\ nobs' = NObs(cfg.T, cfg.dtobs)
  /\ gap' = Gap(cfg.dtobs, cfg.dt)
  /\ time_obs' = StridedFrom(time, gap')
  /\ R' = Diag(cfg.sigobs * cfg.sigobs, YSize(cfg.WhichVariablesAreObserved))
  /\ \E z \in MatrixRealizations(YSize(cfg.WhichVariablesAreObserved),
                                  Len(StridedFrom(xt, gap'))) :
       y' = Observations(H', xt, gap', cfg.sigobs, z)
  /\ pc' = "enkf"
  /\ UNCHANGED << cfg, geomagVars, lorenzVars, referenceVars, enkfVars, resultVars >>

\* ------------------------------------------------------------- myEnKF
\* the sum of the n members of ensemble E
SumVec(E, n) == [c \in 1..3 |-> SumTo([i \in 1..n |-> E[i][c]], n)]

\* the ensemble mean
Mean(E, n) ==
  LET s == SumVec(E, n)
  IN  [c \in 1..3 |-> RoundDiv(s[c], n)]

\* n (x_i - mean): the anomalies of the members, scaled to stay exact
Anomalies(E, n) ==
  LET s == SumVec(E, n)
  IN  [i \in 1..n |-> [c \in 1..3 |-> n * E[i][c] - s[c]]]

\* the sample covariance with n - 1 normalization is CovNum / CovDen
CovNum(E, n) ==
  LET A == Anomalies(E, n)
  IN  [a \in 1..3 |->
         [c \in 1..3 |-> SumTo([i \in 1..n |-> A[i][a] * A[i][c]], n)]]

\* the normalization of the biased estimate, n in place of n - 1
CovDenBiased(n) == n * n * n

CovDen(n) == n * n * (n - 1)

\* CovDen (H P H^T + R): the innovation covariance, scaled to stay exact
InnovCov(E, n, Hm, Rm) ==
  LET Pn == CovNum(E, n)
      HPHt == MatMul(MatMul(Hm, Pn, 3), Transpose(Hm, 3), Len(Hm))
  IN  [i \in 1..Len(Hm) |->
         [j \in 1..Len(Hm) |-> HPHt[i][j] + CovDen(n) * Rm[i][j]]]

\* a gain from a pseudo-inverse: zero where the innovation covariance is
\* singular, so that the inversion never raises
GainPseudoInverse(E, n, Hm, Rm) ==
  LET S == InnovCov(E, n, Hm, Rm)
      Pn == CovNum(E, n)
      PHt == MatMul(Pn, Transpose(Hm, 3), Len(Hm))
      AdjS == Adj(S)
  IN  IF Det(S) = 0 THEN [Kn |-> Zeros(3, Len(Hm)), det |-> 1]
      ELSE [Kn |-> MatMul(PHt, AdjS, Len(Hm)), det |-> Det(S)]

\* the gain K = P H^T (H P H^T + R)^-1 as the exact fraction Kn / det
Gain(E, n, Hm, Rm) ==
  LET S == InnovCov(E, n, Hm, Rm)
      Pn == CovNum(E, n)
      PHt == MatMul(Pn, Transpose(Hm, 3), Len(Hm))
      AdjS == Adj(S)
  IN  [Kn |-> MatMul(PHt, AdjS, Len(Hm)), det |-> Det(S)]

\* np.sqrt of an entry of R
Sqrt(v) == CHOOSE s \in 0..v : s * s = v

\* the observation of one member left unperturbed
UnperturbedObs(yk, e) == yk

\* the observation of one member: y perturbed by its own noise realization
PerturbedObs(yk, e) == [j \in 1..Len(yk) |-> yk[j] + e[j]]

\* x + K (yp - H x)
Analysis(x, K, Hm, yp) ==
  LET Hx == MatVec(Hm, x)
      d == [j \in 1..Len(Hm) |-> yp[j] - Hx[j]]
      Kd == MatVec(K.Kn, d)
  IN  [c \in 1..3 |-> x[c] + RoundDiv(Kd[c], K.det)]

\* the barrier between the propagation of the members and what follows it
BarrierReached(done, n) == done = 1..n

\* the integration steps of phase k: gap up to each assimilation time, then
\* the steps left after the last one
PhaseSteps(k) ==
  IF k <= args.nobs THEN args.gap ELSE args.n_steps - args.nobs * args.gap

\* the time array a member is propagated on: steps steps of size dt
LocalTime(steps, dt) == [j \in 1..(steps + 1) |-> Ticks((j - 1) * dt, 1)]

\* a propagation that starts every member from the ensemble mean
StartStateAtMean(i) == Mean(ens, args.Ne)

\* a propagation that starts from the state of the next member
StartStateOfNeighbour(i) == ens[(i % args.Ne) + 1]

\* the state a member's propagation starts from
StartState(i) == ens[i]

\* the parameter triple handed to the forward model
ModelParameters(i) ==
  [rayleigh |-> args.rayleigh, prandtl |-> args.prandtl, b |-> args.b]

\* P0 = np.eye(3), whatever sigens is
InitialCovarianceUnit(sigens) == Diag(1, 3)

\* P0 = (sigens**2) * np.eye(3)
InitialCovariance(sigens) == Diag(sigens * sigens, 3)

\* the call with one assimilation time too few
CallArgumentsFewerObs ==
  [n_steps |-> n_steps, dt |-> cfg.dt, nobs |-> nobs - 1, time_obs |-> time_obs,
   gap |-> gap, Ne |-> cfg.Ne, H |-> H, R |-> R, y |-> y, x0ens |-> cfg.x0ens,
   P0 |-> InitialCovariance(cfg.sigens), rayleigh |-> cfg.par.rayleigh,
   prandtl |-> cfg.par.prandtl, b |-> cfg.par.b]

\* the call with the step count of the last assimilation time as n_steps
CallArgumentsStepsToLastObs ==
  [n_steps |-> nobs * gap, dt |-> cfg.dt, nobs |-> nobs, time_obs |-> time_obs,
   gap |-> gap, Ne |-> cfg.Ne, H |-> H, R |-> R, y |-> y, x0ens |-> cfg.x0ens,
   P0 |-> InitialCovariance(cfg.sigens), rayleigh |-> cfg.par.rayleigh,
   prandtl |-> cfg.par.prandtl, b |-> cfg.par.b]

\* the call with rayleigh and prandtl in each other's position
CallArgumentsSwappedParameters ==
  [n_steps |-> n_steps, dt |-> cfg.dt, nobs |-> nobs, time_obs |-> time_obs,
   gap |-> gap, Ne |-> cfg.Ne, H |-> H, R |-> R, y |-> y, x0ens |-> cfg.x0ens,
   P0 |-> InitialCovariance(cfg.sigens), rayleigh |-> cfg.par.prandtl,
   prandtl |-> cfg.par.rayleigh, b |-> cfg.par.b]

\* myEnKF(n_steps, dt, nobs, time_obs, gap, Ne, H, R, y, x0ens, P0,
\*        rayleigh, prandtl, b)
CallArguments ==
  [n_steps |-> n_steps, dt |-> cfg.dt, nobs |-> nobs, time_obs |-> time_obs,
   gap |-> gap, Ne |-> cfg.Ne, H |-> H, R |-> R, y |-> y, x0ens |-> cfg.x0ens,
   P0 |-> InitialCovariance(cfg.sigens), rayleigh |-> cfg.par.rayleigh,
   prandtl |-> cfg.par.prandtl, b |-> cfg.par.b]

\* a check of the shapes that looks at the ensemble mean only
WellFormedCallStateOnly(a) == Len(a.x0ens) = 3

\* the shapes myEnKF accepts: a mean of 3 entries, H with 3 columns and as
\* many rows as every column of y has entries
WellFormedCall(a) ==
  /\ Len(a.x0ens) = 3
  /\ \A i \in 1..Len(a.H) : Len(a.H[i]) = 3
  /\ \A j \in 1..Len(a.y) : Len(a.y[j]) = Len(a.H)

\* the call xEnKF, x_ens = myEnKF(...): malformed shapes are rejected before
\* anything is computed; otherwise the initial ensemble is drawn around
\* x0ens with covariance P0
EnKFStart ==
  /\ pc = "enkf"
  /\ args' = CallArguments
  /\ IF WellFormedCall(args')
     THEN /\ \E xi \in EnsembleDraws(args'.Ne) :
               ens' = [i \in 1..args'.Ne |->
                         [c \in 1..3 |->
                            args'.x0ens[c] + Sqrt(args'.P0[c][c]) * xi[i][c]]]
          /\ xe' = [i \in 1..args'.Ne |-> << ens'[i] >>]
          /\ xm' = << Mean(ens', args'.Ne) >>
          /\ seg' = [i \in 1..args'.Ne |-> <<>>]
          /\ iobs' = 1
          /\ pc' = "propagate"
     ELSE /\ UNCHANGED << ens, xe, xm, seg, iobs >>
          /\ pc' = "rejected"
  /\ propagated' = {}
  /\ UNCHANGED << cfg, geomagVars, lorenzVars, referenceVars, obsVars, resultVars, xf, eps, gain, xa,
                  calls, ncalls, phases >>

\* member i is advanced by the forward model to the end of the current phase
Propagate(i) ==
  /\ pc = "propagate"
  /\ i \in 1..args.Ne
  /\ i \notin propagated
  /\ \E tr \in {forwardModel_r(StartState(i), LocalTime(PhaseSteps(iobs), args.dt),
                                 ModelParameters(i).rayleigh,
                                 ModelParameters(i).prandtl, ModelParameters(i).b)} :
     LET done == propagated \cup {i}
         traj == [xe EXCEPT ![i] = xe[i] \o Tail(tr)]
     IN  /\ seg' = [seg EXCEPT ![i] = tr]
         /\ ens' = [ens EXCEPT ![i] = tr[Len(tr)]]
         /\ xe' = traj
         /\ calls' = calls \cup {[cycle |-> iobs, member |-> i,
                                   x0 |-> StartState(i), par |-> ModelParameters(i),
                                   ncols |-> Len(tr)]}
         /\ ncalls' = ncalls + 1
         /\ propagated' = done
         /\ IF BarrierReached(done, args.Ne)
            THEN /\ xm' = xm \o [s \in 1..PhaseSteps(iobs) |->
                                   Mean([m \in 1..args.Ne |-> traj[m][Len(xm) + s]],
                                        args.Ne)]
                 /\ phases' = Append(phases, IF iobs <= args.nobs THEN "propagate"
                                                                  ELSE "forecast")
                 /\ pc' = IF iobs <= args.nobs THEN "update" ELSE "return"
            ELSE /\ UNCHANGED << xm, phases >>
                 /\ pc' = "propagate"
  /\ UNCHANGED << cfg, geomagVars, lorenzVars, referenceVars, obsVars, resultVars, args, iobs, xf, eps,
                  gain, xa >>

\* the update at assimilation time iobs; a singular innovation covariance
\* makes the inversion raise and the call fail
Update ==
  /\ pc = "update"
  /\ \E K \in {Gain(ens, args.Ne, args.H, args.R)} :
         IF K.det = 0
         THEN /\ pc' = "singular"
              /\ UNCHANGED << iobs, ens, propagated, xf, eps, gain, xm, xe, xa,
                              phases >>
         ELSE \E z \in [1..args.Ne -> Realizations(Len(args.H))] :
                LET e == [i \in 1..args.Ne |->
                            [j \in 1..Len(args.H) |-> Sqrt(args.R[j][j]) * z[i][j]]]
                    E == [i \in 1..args.Ne |->
                            Analysis(ens[i], K, args.H,
                                     PerturbedObs(args.y[iobs], e[i]))]
                IN  /\ xf' = ens
                    /\ eps' = e
                    /\ gain' = K
                    /\ ens' = E
                    /\ xe' = [i \in 1..args.Ne |->
                                [xe[i] EXCEPT ![Len(xe[i])] = E[i]]]
                    /\ xm' = [xm EXCEPT ![Len(xm)] = Mean(E, args.Ne)]
                    /\ xa' = Append(xa, E)
                    /\ phases' = Append(phases, "update")
                    /\ propagated' = {}
                    /\ iobs' = iobs + 1
                    /\ pc' = "propagate"
  /\ UNCHANGED << cfg, geomagVars, lorenzVars, referenceVars, obsVars, resultVars, args, seg, calls, ncalls >>

\* myEnKF returns the recorded trajectories
Return ==
  /\ pc = "return"
  /\ xEnKF' = xm
  /\ x_ens' = xe
  /\ pc' = "errors"
  /\ UNCHANGED << cfg, geomagVars, lorenzVars, referenceVars, obsVars, enkfVars >>

\* cell "Compute Euclidean error": xt - xEnKF needs equal shapes
ErrorCell ==
  /\ pc = "errors"
  /\ pc' = IF Len(xt) = Len(xEnKF) THEN "done" ELSE "shape_error"
  /\ UNCHANGED << cfg, geomagVars, lorenzVars, referenceVars, obsVars, enkfVars, resultVars >>

Next ==
  \/ ReferenceTrajectory
  \/ SyntheticObservations
  \/ EnKFStart
  \/ \E i \in DOMAIN ens : Propagate(i)
  \/ Update
  \/ Return
  \/ ErrorCell

Spec == Init /\ [][Next]_vars

\* ------------------------------------------------- forward-model notebook
\* the control parameters of the notebook, and the driver's
LorenzTriples ==
  {[rayleigh |-> 28, prandtl |-> 10, b |-> [n |-> 8, d |-> 3]],
   [rayleigh |-> 35, prandtl |-> 10, b |-> [n |-> 8, d |-> 3]]}

\* initial conditions: Lorenz's, the state of quiescence and two others
LorenzInitialStates == {<<0, 1, 0>>, <<0, 0, 0>>, <<1, 1, 1>>, <<0 - 1, 2, 3>>}

\* the parameter cells of the notebook, with the values a user may set
LorenzConfigurations ==
  [T : 0..MaxT, dt : {1}, par : LorenzTriples, x0 : LorenzInitialStates,
   epsilon_ic : {1, 2}, epsilon_par : {1}]

LorenzInit ==
  /\ cfg \in LorenzConfigurations
  /\ pc = "lorenz"
  /\ Blank

\* cell "Original integration by Lorenz"
LorenzRun ==
  /\ pc = "lorenz"
  /\ n_steps' = NSteps(cfg.T, cfg.dt)
  /\ time' = Linspace(cfg.T, NSteps(cfg.T, cfg.dt))
  /\ x1' = forwardModel_r(cfg.x0, time', cfg.par.rayleigh, cfg.par.prandtl, cfg.par.b)
  /\ pc' = "sensitivity"
  /\ UNCHANGED << cfg, geomagVars, xt, obsVars, enkfVars, resultVars, x2, x3 >>

\* the cell with the perturbed runs assigned to x as well
LorenzSensitivityOverwriting ==
  /\ pc = "sensitivity"
  /\ x2' = forwardModel_r(<<0, 1 + cfg.epsilon_ic, 0>>, time, cfg.par.rayleigh,
                          cfg.par.prandtl, cfg.par.b)
  /\ x3' = forwardModel_r(<<0, 1, 0>>, time, cfg.par.rayleigh + cfg.epsilon_par,
                          cfg.par.prandtl, cfg.par.b)
  /\ x1' = x2'
  /\ pc' = "plotted"
  /\ UNCHANGED << cfg, geomagVars, referenceVars, obsVars, enkfVars, resultVars >>

\* cell "The Butterfly effect": a perturbed initial condition, then a
\* perturbed rayleigh
LorenzSensitivity ==
  /\ pc = "sensitivity"
  /\ x2' = forwardModel_r(<<0, 1 + cfg.epsilon_ic, 0>>, time, cfg.par.rayleigh,
                          cfg.par.prandtl, cfg.par.b)
  /\ x3' = forwardModel_r(<<0, 1, 0>>, time, cfg.par.rayleigh + cfg.epsilon_par,
                          cfg.par.prandtl, cfg.par.b)
  /\ pc' = "plotted"
  /\ UNCHANGED << cfg, geomagVars, referenceVars, obsVars, enkfVars, resultVars, x1 >>

LorenzNext == LorenzRun \/ LorenzSensitivity

SpecLorenz == LorenzInit /\ [][LorenzNext]_vars

\* ------------------------------------------------- malformed shapes
\* parameter cells with an initial state or an ensemble centre a user may
\* mistype, and the observation pattern callerW of the H another caller passes
ShapeConfigurations ==
  [T : 1..MaxT, dt : {1}, dtobs : 1..MaxDtObs,
   WhichVariablesAreObserved : ObservedPatterns, callerW : ObservedPatterns,
   sigobs : {2}, Ne : {2}, sigens : {1}, par : ParameterTriples,
   x0 : {<<0, 1, 2>>, <<0, 1>>}, x0ens : {<<0, 0, 0>>, <<0, 0>>}]

\* the driver's cells from the start, with the driver's own H
ShapeDriverInit ==
  /\ cfg \in {c \in ShapeConfigurations :
                 c.callerW = c.WhichVariablesAreObserved /\ c.dtobs = 1}
  /\ pc = "reference"
  /\ Blank

\* a caller about to call myEnKF with the truth, the observations and R of
\* the driver's cells and an H of its own
ShapeCallerInit ==
  /\ cfg \in {c \in ShapeConfigurations :
                 c.callerW # c.WhichVariablesAreObserved /\ Len(c.x0) = 3
                 /\ Len(c.x0ens) = 3}
  /\ pc = "enkf"
  /\ n_steps = NSteps(cfg.T, cfg.dt)
  /\ time = Linspace(cfg.T, n_steps)
  /\ xt = forwardModel_r(cfg.x0, time, cfg.par.rayleigh, cfg.par.prandtl, cfg.par.b)
  /\ H = ObservationOperator(cfg.callerW)
  /\ nobs = NObs(cfg.T, cfg.dtobs)
  /\ gap = Gap(cfg.dtobs, cfg.dt)
  /\ time_obs = StridedFrom(time, gap)
  /\ R = Diag(cfg.sigobs * cfg.sigobs, YSize(cfg.WhichVariablesAreObserved))
  /\ y \in {Observations(ObservationOperator(cfg.WhichVariablesAreObserved), xt, gap,
                          cfg.sigobs, z) :
               z \in MatrixRealizations(YSize(cfg.WhichVariablesAreObserved),
                                        Len(StridedFrom(xt, gap)))}
  /\ BlankFilter

ShapeInit == ShapeDriverInit \/ ShapeCallerInit

SpecShapes == ShapeInit /\ [][Next]_vars

\* ------------------------------------------------- every observation pattern
\* parameter cells with every 0/1 vector for WhichVariablesAreObserved
PatternConfigurations ==
  [T : 1..MaxT, dt : {1}, dtobs : 1..MaxDtObs,
   WhichVariablesAreObserved : [1..3 -> {0, 1}], sigobs : {2}, Ne : {2}, sigens : {1},
   par : ParameterTriples, x0 : {<<0, 1, 2>>, <<1, 1, 1>>}, x0ens : {<<0, 0, 0>>}]

PatternInit ==
  /\ cfg \in PatternConfigurations
  /\ pc = "reference"
  /\ Blank

SpecPatterns == PatternInit /\ [][Next]_vars

\* ------------------------------------------------- step sizes
\* the largest step size dt a user sets, in ticks
MaxDt == 2

\* parameter cells with step sizes that need not divide T or dtobs
GridConfigurations ==
  {c \in [T : 1..MaxT, dt : 1..MaxDt, dtobs : 1..MaxDtObs,
          WhichVariablesAreObserved : {<<1, 1, 1>>, <<1, 0, 0>>}, sigobs : {2}, Ne : {2},
          sigens : {1}, par : ParameterTriples, x0 : {<<0, 1, 2>>},
          x0ens : {<<0, 0, 0>>}] :
     c.dtobs >= c.dt}

GridInit ==
  /\ cfg \in GridConfigurations
  /\ pc = "reference"
  /\ Blank

SpecGrid == GridInit /\ [][Next]_vars

\* ------------------------------------------------- full state observed
\* parameter cells with every variable observed, noise-free observations and
\* four members, the fewest whose covariance can be non-singular
FullObsConfigurations ==
  [T : 1..MaxT, dt : {1}, dtobs : 1..MaxDtObs,
   WhichVariablesAreObserved : {<<1, 1, 1>>}, sigobs : {0}, Ne : {4}, sigens : {1},
   par : ParameterTriples, x0 : {<<0, 1, 2>>, <<1, 1, 1>>}, x0ens : EnsembleCentres]

FullObsInit ==
  /\ cfg \in FullObsConfigurations
  /\ pc = "reference"
  /\ Blank

SpecFullObs == FullObsInit /\ [][Next]_vars

\* ------------------------------------------------- a cell run again
\* the cell of the synthetic observations run a second time before myEnKF is
\* called, with the parameters and the truth as they are: H, nobs, gap,
\* time_obs and R come out the same, the noise is drawn again from
\* np.random's state
RerunObservations ==
  /\ pc = "enkf"
  /\ \E z \in MatrixRealizations(YSize(cfg.WhichVariablesAreObserved),
                                  Len(StridedFrom(xt, gap))) :
       y' = Observations(H, xt, gap, cfg.sigobs, z)
  /\ UNCHANGED << cfg, geomagVars, pc, lorenzVars, referenceVars, H, nobs, gap, time_obs, R,
                  enkfVars, resultVars >>

RerunNext == Next \/ RerunObservations

SpecRerun == Init /\ [][RerunNext]_vars

\* ------------------------------------------------- either notebook
NotebooksInit == Init \/ LorenzInit

NotebooksNext == Next \/ LorenzNext

SpecNotebooks == NotebooksInit /\ [][NotebooksNext]_vars

\* ------------------------------------------------- K index (04a_SHA1)
\* reshape(8, 180): the blocks of a day of minute values
BlocksPerDay == 8
MinutesPerBlock == 180

\* the K-index conversion table for ESK: the lower bounds of K0 .. K9
K_conversions == <<0, 8, 15, 30, 60, 105, 180, 300, 500, 750>>

\* np.digitize(v, bins, right=True): bins[i-1] < v <= bins[i]
DigitizeRight(v, bins) == Cardinality({i \in 1..Len(bins) : bins[i] < v})

\* np.digitize(v, bins, right=False) for increasing bins: the i with
\* bins[i-1] <= v < bins[i], 0 below the first bin and len(bins) from the last
Digitize(v, bins) == Cardinality({i \in 1..Len(bins) : bins[i] <= v})

\* row i (from 1) of a.reshape(rows, w)
ReshapeRow(a, i, w) == [j \in 1..w |-> a[(i - 1) * w + j]]

RECURSIVE MaxIn(_, _, _)
\* np.max of f[lo] .. f[hi], by halves
MaxIn(f, lo, hi) ==
  IF lo = hi THEN f[lo]
  ELSE LET mid == (lo + hi) \div 2
           l == MaxIn(f, lo, mid)
           r == MaxIn(f, mid + 1, hi)
       IN  IF r > l THEN r ELSE l

RECURSIVE MinIn(_, _, _)
\* np.min of f[lo] .. f[hi], by halves
MinIn(f, lo, hi) ==
  IF lo = hi THEN f[lo]
  ELSE LET mid == (lo + hi) \div 2
           l == MinIn(f, lo, mid)
           r == MinIn(f, mid + 1, hi)
       IN  IF r < l THEN r ELSE l

MaxTo(f, n) == MaxIn(f, 1, n)

MinTo(f, n) == MinIn(f, 1, n)

\* np.ptp: the range maximum - minimum
Ptp(f) == MaxTo(f, Len(f)) - MinTo(f, Len(f))

\* d - synd, element by element
Residual(d, synd) == [m \in 1..Len(d) |-> d[m] - synd[m]]

K_calc(d, synd, Kb) ==
  LET r == Residual(d, synd)
      tmp == [i \in 1..BlocksPerDay |-> Ptp(ReshapeRow(r, i, MinutesPerBlock))]
  IN  [i \in 1..BlocksPerDay |-> Digitize(tmp[i], Kb) - 1]

\* the 3-hour ranges considered: the values at and next to every bound
RangeValues ==
  {0, 7, 8, 14, 15, 29, 30, 59, 60, 104, 105, 179, 180, 299, 300, 499, 500, 749, 750,
   751, 2000}

\* the days considered: quiet but for one 3-hour block, whose X residual
\* spans v (from its first to its last minute when rising) and whose Y
\* residual spans vy
DayConfigurations ==
  [v : RangeValues, block : 1..BlocksPerDay, rising : BOOLEAN, vy : {0, 40}]

\* a residual of range v in block b: low at one end of the block, high at the other
BlockResidual(v, b, rising) ==
  [m \in 1..(BlocksPerDay * MinutesPerBlock) |->
     IF m = (b - 1) * MinutesPerBlock + 1
       THEN (IF rising THEN 0 - (v \div 3) ELSE v - (v \div 3))
     ELSE IF m = b * MinutesPerBlock
       THEN (IF rising THEN v - (v \div 3) ELSE 0 - (v \div 3))
     ELSE 0]

\* the fitted daily variation: a slow wave of whole nanoteslas
Synthetic == [m \in 1..(BlocksPerDay * MinutesPerBlock) |-> (m \div 240) % 4]

\* the minute values of the day: the fitted variation plus the residual
DayValues(v, b, rising) ==
  [m \in 1..(BlocksPerDay * MinutesPerBlock) |->
     Synthetic[m] + BlockResidual(v, b, rising)[m]]

KIndexInit ==
  /\ cfg \in DayConfigurations
  /\ pc = "K_calc"
  /\ Blank

\* K_calc(x, synx)
KCalcCall ==
  /\ pc = "K_calc"
  /\ K_index' = K_calc(DayValues(cfg.v, cfg.block, cfg.rising), Synthetic, K_conversions)
  /\ pc' = "analyse_day"
  /\ UNCHANGED << cfg, driverVars, bartelsVars, groundVars, traceVars, dph, shaVars, K_X, K_Y, K_ours >>

\* analyse_day: the min/max bounds over the 3-hourly intervals, K from each
\* of X and Y, and the larger of the two
AnalyseDay ==
  /\ pc = "analyse_day"
  /\ \E rx \in {Residual(DayValues(cfg.v, cfg.block, cfg.rising), Synthetic)},
        ry \in {Residual(DayValues(cfg.vy, cfg.block, ~cfg.rising), Synthetic)} :
       LET minX == [i \in 1..BlocksPerDay |-> MinTo(ReshapeRow(rx, i, MinutesPerBlock),
                                                    MinutesPerBlock)]
           maxX == [i \in 1..BlocksPerDay |-> MaxTo(ReshapeRow(rx, i, MinutesPerBlock),
                                                    MinutesPerBlock)]
           minY == [i \in 1..BlocksPerDay |-> MinTo(ReshapeRow(ry, i, MinutesPerBlock),
                                                    MinutesPerBlock)]
           maxY == [i \in 1..BlocksPerDay |-> MaxTo(ReshapeRow(ry, i, MinutesPerBlock),
                                                    MinutesPerBlock)]
       IN  /\ K_X' = [i \in 1..BlocksPerDay |->
                        Digitize(maxX[i] - minX[i], K_conversions) - 1]
           /\ K_Y' = [i \in 1..BlocksPerDay |->
                        Digitize(maxY[i] - minY[i], K_conversions) - 1]
  /\ K_ours' = [i \in 1..BlocksPerDay |->
                  IF K_X'[i] > K_Y'[i] THEN K_X'[i] ELSE K_Y'[i]]
  /\ pc' = "K_done"
  /\ UNCHANGED << cfg, driverVars, bartelsVars, groundVars, traceVars, dph, shaVars, K_index >>

KIndexNext == KCalcCall \/ AnalyseDay

SpecKIndex == KIndexInit /\ [][KIndexNext]_vars

\* ------------------------------------------------- Bartels rotation
\* how many days a run of the index advances
MaxDays == 31

\* the calendar of datetime.date
IsLeap(yr) == yr % 4 = 0 /\ (yr % 100 # 0 \/ yr % 400 = 0)

DaysInMonth(yr, mo) ==
  IF mo = 2 THEN (IF IsLeap(yr) THEN 29 ELSE 28)
  ELSE IF mo \in {4, 6, 9, 11} THEN 30 ELSE 31

\* the days before 1 January of year yr, from 1 January of year 1
DaysBeforeYear(yr) ==
  (yr - 1) * 365 + (yr - 1) \div 4 - (yr - 1) \div 100 + (yr - 1) \div 400

\* the days of year yr before the first of month mo
DaysBeforeMonth(yr, mo) == SumTo([k \in 1..12 |-> DaysInMonth(yr, k)], mo - 1)

\* date.toordinal(): 1 for 1 January of year 1
ToOrdinal(dd) == DaysBeforeYear(dd.year) + DaysBeforeMonth(dd.year, dd.month) + dd.day

\* (a - b).days of two dates
DateDiffDays(a, b) == ToOrdinal(a) - ToOrdinal(b)

\* the next calendar day
NextDate(dd) ==
  IF dd.day < DaysInMonth(dd.year, dd.month) THEN [dd EXCEPT !.day = dd.day + 1]
  ELSE IF dd.month < 12 THEN [year |-> dd.year, month |-> dd.month + 1, day |-> 1]
  ELSE [year |-> dd.year + 1, month |-> 1, day |-> 1]

\* dt.date(1832, 2, 8)
BartelsEpoch == [year |-> 1832, month |-> 2, day |-> 8]

\* a copy that numbers the days of a rotation from 0
bartels_rotation_FromZero(dd, hr) ==
  LET ndays == DateDiffDays(dd, BartelsEpoch)
  IN  [rotation |-> FloorDiv(ndays, 27) + 1, day |-> ndays - 27 * FloorDiv(ndays, 27),
       hour |-> hr]

\* bartels_rotation of 04a_SHA1: ndays//27 + 1, ndays%27 + 1 and the hour
bartels_rotation(dd, hr) ==
  LET ndays == DateDiffDays(dd, BartelsEpoch)
  IN  [rotation |-> FloorDiv(ndays, 27) + 1,
       day |-> (ndays - 27 * FloorDiv(ndays, 27)) + 1,
       hour |-> hr]

\* bartels_rotation of 01a_Visualising-Geomagnetic-Observatory-Data
bartels_rotation_vis(dd, hr) ==
  LET ndays == DateDiffDays(dd, BartelsEpoch)
  IN  [rotation |-> FloorDiv(ndays, 27) + 1,
       day |-> (ndays - 27 * FloorDiv(ndays, 27)) + 1,
       hour |-> hr]

\* the first rows of the indices considered: the epoch, and the first of
\* every month of years before and after a century and a leap year
StartDates ==
  {BartelsEpoch} \cup
  [year : {1832, 1899, 1900, 2000, 2003, 2004}, month : 1..12, day : {1}]

BartelsConfigurations == [start : StartDates, hour : {0, 23}]

BartelsInit ==
  /\ cfg \in BartelsConfigurations
  /\ pc = "index"
  /\ Blank

\* df.index: the first row
BartelsIndex ==
  /\ pc = "index"
  /\ date' = cfg.start
  /\ pc' = "bartels_rotation"
  /\ UNCHANGED << cfg, driverVars, kindexVars, groundVars, traceVars, dph, shaVars, elapsed, bartrot, bartrotday, hourofday,
                  bartrot_vis, bartrotday_vis >>

\* bartrot, bartrotday, hourofday = bartels_rotation(df.index), in both notebooks
BartelsCall ==
  /\ pc = "bartels_rotation"
  /\ \E r \in {bartels_rotation(date, cfg.hour)} :
       bartrot' = r.rotation /\ bartrotday' = r.day /\ hourofday' = r.hour
  /\ \E r \in {bartels_rotation_vis(date, cfg.hour)} :
       bartrot_vis' = r.rotation /\ bartrotday_vis' = r.day
  /\ pc' = "next_day"
  /\ UNCHANGED << cfg, driverVars, kindexVars, groundVars, traceVars, dph, shaVars, date, elapsed >>

\* the row of the next calendar day
NextDay ==
  /\ pc = "next_day"
  /\ elapsed < MaxDays
  /\ date' = NextDate(date)
  /\ elapsed' = elapsed + 1
  /\ pc' = "bartels_rotation"
  /\ UNCHANGED << cfg, driverVars, kindexVars, groundVars, traceVars, dph, shaVars, bartrot, bartrotday, hourofday, bartrot_vis,
                  bartrotday_vis >>

BartelsNext == BartelsIndex \/ BartelsCall \/ NextDay

SpecBartels == BartelsInit /\ [][BartelsNext]_vars

\* ------------------------------------------------- ground observations (04c)
\* how many rows the annual-means table has
MaxRows == 2

\* 2000.5, in tenths of a year
YearSelected == 20005

\* the flag of a missing Z value
BadZ == 88888

\* the rows of the annual-means table considered (years in tenths,
\* angles in whole degrees)
TableRows ==
  [year : {19995, 20005}, Colat : {35}, Long : {0 - 190, 10, 370}, Z : {45000, BadZ}]

\* df.where(df["year"] == 2000.5): the other rows become rows of NaN, marked here
WhereYear(df) ==
  [k \in 1..Len(df) |-> [isnan |-> df[k].year # YearSelected, row |-> df[k]]]

\* df.where(df["Z"] != 88888)
WhereGoodZ(df) == [k \in 1..Len(df) |-> [isnan |-> df[k].Z = BadZ, row |-> df[k]]]

IsKept(e) == ~e.isnan

\* df.dropna(): the rows without a NaN
DropNa(m) ==
  LET kept == SelectSeq(m, IsKept)
  IN  [k \in 1..Len(kept) |-> kept[k].row]

\* load_data(year): df.where(df["year"] == 2000.5).dropna(), the screening of
\* Z, then Latitude and Longitude
load_data(table, year) ==
  LET df == DropNa(WhereGoodZ(DropNa(WhereYear(table))))
  IN  [k \in 1..Len(df) |->
         [year |-> df[k].year, Colat |-> df[k].Colat, Long |-> df[k].Long, Z |-> df[k].Z,
          Latitude |-> 90 - df[k].Colat,
          Longitude |-> (((df[k].Long % 360) + 540) % 360) - 180]]

GroundConfigurations == [year : {19995, 20005}, table : [1..MaxRows -> TableRows]]

GroundInit ==
  /\ cfg \in GroundConfigurations
  /\ pc = "load_data"
  /\ Blank

\* input_data = load_data(year=...)
LoadData ==
  /\ pc = "load_data"
  /\ input_data' = load_data(cfg.table, cfg.year)
  /\ pc' = "loaded"
  /\ UNCHANGED << cfg, driverVars, kindexVars, bartelsVars, traceVars, dph, shaVars >>

SpecGround == GroundInit /\ [][LoadData]_vars

\* ------------------------------------------------- field-line tracing (03a)
\* Lengths are in metres, angles in milliradians.

\* maxstep: 10000 in the notebook, a smaller number of steps here
MaxStep == 3

\* r0 = 6371.2 km
r0 == 6371200

\* pi, in milliradians
PiMilli == 3142

\* np.deg2rad
d2r(deg) == RoundDiv(deg * PiMilli, 180)

\* np.rad2deg
r2d(mrad) == RoundDiv(mrad * 180, PiMilli)

\* 1000 sin(th) for th in 0..pi, by Bhaskara's rational approximation
SinMilli(th) ==
  LET q == th * (PiMilli - th)
  IN  RoundDiv(16 * q, RoundDiv(5 * PiMilli * PiMilli - 4 * q, 1000))

\* the values of sha.shm_calculator(...) / fcalc considered: the direction
\* (north, east, down-component as used by the loop) of the field at a point
FieldDirections == {<<1, 0, 1>>, <<1, 1, 0>>, <<0, 0 - 1, 0 - 1>>}

\* a loop that goes on while the radius is above r0
LoopConditionStrict(st, nr) == st <= MaxStep /\ nr > r0

\* while step <= maxstep and newrad >= r0
LoopCondition(st, nr) == st <= MaxStep /\ nr >= r0

\* the input cell: starting colatitude and longitude in degrees, step size
TraceConfigurations == [theta_0 : {30, 150}, phi_0 : {125}, step_size : {10000, 50000}]

TraceInit ==
  /\ cfg \in TraceConfigurations
  /\ pc = "initialise"
  /\ Blank

\* the cell up to the loop: the starting point and the field there
TraceInitialise ==
  /\ pc = "initialise"
  /\ track' = << <<r0, d2r(cfg.theta_0), d2r(cfg.phi_0)>> >>
  /\ bxyz' \in FieldDirections
  /\ lamb' = cfg.step_size
  /\ newrad' = r0 + 1
  /\ step' = 0
  /\ pc' = "while"
  /\ UNCHANGED << cfg, driverVars, otherVars, newth, newph, conjugate >>

\* one iteration of the while loop
TraceStep ==
  /\ pc = "while"
  /\ LoopCondition(step, newrad)
  /\ LET rad == track[step + 1][1]
         th == track[step + 1][2]
         ph == track[step + 1][3]
         lx == bxyz[1] * lamb
         ly == bxyz[2] * lamb
         lz == bxyz[3] * lamb
     IN  /\ newrad' = rad + lz
         /\ newth' = th + RoundDiv(1000 * lx, rad)
         /\ newph' = ph - RoundDiv(1000 * ly, RoundDiv(rad, 1000) * SinMilli(th))
  /\ track' = Append(track, <<newrad', newth', newph'>>)
  /\ bxyz' \in FieldDirections
  /\ lamb' = cfg.step_size
  /\ step' = step + 1
  /\ UNCHANGED << cfg, pc, driverVars, otherVars, conjugate >>

\* the loop is left; the coordinates of the conjugate point are printed
TraceReport ==
  /\ pc = "while"
  /\ ~LoopCondition(step, newrad)
  /\ conjugate' = <<r2d(newth), r2d(newph) % 360>>
  /\ pc' = "printed"
  /\ UNCHANGED << cfg, driverVars, otherVars, track, step, bxyz, lamb, newrad, newth,
                  newph >>

TraceNext == TraceInitialise \/ TraceStep \/ TraceReport

SpecTrace == TraceInit /\ [][TraceNext]_vars /\ WF_vars(TraceNext)

\* ------------------------------------------------- longitude difference (04b_SHA2)
\* how many turns of 360 degrees the longitudes considered span, either way
MaxTurns == 2

\* np.sign
Sign(v) == IF v > 0 THEN 1 ELSE IF v < 0 THEN 0 - 1 ELSE 0

Abs(v) == IF v < 0 THEN 0 - v ELSE v

\* the % of Python and numpy for a positive modulus: the result is in 0..m-1
PyMod(v, m) == v - m * FloorDiv(v, m)

\* dlong without the last test: the difference of the reduced longitudes
dlong_LongRoute(ph1, ph2) ==
  LET a0 == PyMod(Sign(ph1) * Abs(ph1), 360)
      b0 == PyMod(Sign(ph2) * Abs(ph2), 360)
      a == IF a0 < 0 THEN a0 + 360 ELSE a0
      b == IF b0 < 0 THEN b0 + 360 ELSE b0
  IN  (IF a > b THEN a ELSE b) - (IF a < b THEN a ELSE b)

\* dlong(ph1, ph2): np.sign(ph)*abs(ph)%360 for each argument, 360 added to
\* a negative result, max - min, and 360 - dph above 180
dlong(ph1, ph2) ==
  LET a0 == PyMod(Sign(ph1) * Abs(ph1), 360)
      b0 == PyMod(Sign(ph2) * Abs(ph2), 360)
      a == IF a0 < 0 THEN a0 + 360 ELSE a0
      b == IF b0 < 0 THEN b0 + 360 ELSE b0
      d == (IF a > b THEN a ELSE b) - (IF a < b THEN a ELSE b)
  IN  IF d > 180 THEN 360 - d ELSE d

\* the longitudes considered, in whole degrees: the multiples of 45 and the
\* neighbours of 0 and 180 on every turn
Longitudes ==
  {d \in (0 - 360 * MaxTurns)..(360 * MaxTurns) :
     d % 45 = 0 \/ d % 360 \in {1, 179, 181, 359}}

DlongConfigurations == [ph1 : Longitudes, ph2 : Longitudes]

DlongInit ==
  /\ cfg \in DlongConfigurations
  /\ pc = "dlong"
  /\ Blank

\* greatcircle: dlong(ph1, ph2)
DlongCall ==
  /\ pc = "dlong"
  /\ dph' = dlong(cfg.ph1, cfg.ph2)
  /\ pc' = "dlong_returned"
  /\ UNCHANGED << cfg, driverVars, kindexVars, bartelsVars, groundVars, traceVars,
                  shaVars >>

SpecDlong == DlongInit /\ [][DlongCall]_vars

\* ------------------------------------------- equations of condition (04b_SHA2)
\* the largest number of data triples selected for the epoch
MaxNx == 2

\* np.zeros(npar)
ZeroLine(npar) == [c \in 1..npar |-> 0]

\* the lines the two loops over n and m leave in linex, liney and linez for
\* one datum at degree 1: every entry is written, and liney is 0 at g(n,0)
XLines == {<<1, 2, 3, 4>>, <<5, 6, 7, 8>>}
YLines == {<<0, 0, 1, 2>>, <<0, 0, 3, 4>>}
ZLines == {<<4, 3, 2, 1>>, <<8, 7, 6, 5>>}

\* the values X, Y, Z of one datum
Triples == {<<20, 1, 45>>, <<17, 0 - 2, 0 - 50>>}

ShaData == [xyz : Triples, x : XLines, y : YLines, z : ZLines]

\* data.loc[epoch][['X', 'Y', 'Z']].values.reshape(ndat, 1)
ReshapeColumn(data) ==
  [k \in 1..(3 * Len(data)) |-> data[((k - 1) \div 3) + 1].xyz[((k - 1) % 3) + 1]]

\* lhs[k, :] = line
SetRow(m, k, line) == [m EXCEPT ![k] = line]

\* a slice that reaches back to the first row
SetRowsFrom_WholeMatrix(m, k, line) == [j \in DOMAIN m |-> line]

\* lhs[k :] = line, the line written to every row from k to the last
SetRowsFrom(m, k, line) == [j \in DOMAIN m |-> IF j >= k THEN line ELSE m[j]]

ShaConfigurations ==
  UNION {[nmax : {1}, data : [1..nx -> ShaData]] : nx \in 1..MaxNx}

ShaInit ==
  /\ cfg \in ShaConfigurations
  /\ pc = "geomagnetic_model"
  /\ Blank

\* geomagnetic_model up to the loop: rhs, the zero matrix and the zero lines
GeomagneticModel ==
  /\ pc = "geomagnetic_model"
  /\ LET nx == Len(cfg.data)
         ndat == 3 * nx
         npar == (cfg.nmax + 1) * (cfg.nmax + 1)
     IN  /\ rhs' = ReshapeColumn(cfg.data)
         /\ lhs' = [j \in 1..ndat |-> ZeroLine(npar)]
         /\ linex' = ZeroLine(npar)
         /\ liney' = ZeroLine(npar)
         /\ linez' = ZeroLine(npar)
  /\ iln' = 0
  /\ pc' = "lines"
  /\ UNCHANGED << cfg, driverVars, kindexVars, bartelsVars, groundVars, traceVars, dph >>

\* one pass of the loop over the data triples: the three lines are computed,
\* written to rows iln, iln+1 and iln+2 onwards, and iln advances by 3
ConditionLines ==
  /\ pc = "lines"
  /\ LET i == (iln \div 3) + 1
         d == cfg.data[i]
     IN  /\ linex' = d.x
         /\ liney' = d.y
         /\ linez' = d.z
         /\ lhs' = SetRowsFrom(SetRow(SetRow(lhs, iln + 1, d.x), iln + 2, d.y),
                               iln + 3, d.z)
         /\ iln' = iln + 3
         /\ pc' = IF i = Len(cfg.data) THEN "lstsq" ELSE "lines"
  /\ UNCHANGED << cfg, driverVars, kindexVars, bartelsVars, groundVars, traceVars, dph,
                  rhs >>

ShaNext == GeomagneticModel \/ ConditionLines

SpecSha == ShaInit /\ [][ShaNext]_vars

\* ------------------------------------------------------------- properties
\* myEnKF has returned (the call did not fail)
Returned == pc \in {"errors", "done", "shape_error"}

\* myEnKF is running or has returned
Started == pc \in {"propagate", "update", "return", "singular"} \/ Returned

\* the phase expected at position j of a run with n assimilation times
ExpectedPhase(j, n) ==
  IF j > 2 * n THEN "forecast" ELSE IF j % 2 = 1 THEN "propagate" ELSE "update"

C2_Step ==
  /\ Len(xa') > Len(xa) => propagated = 1..cfg.Ne /\ pc = "update"
  /\ pc = "update" => propagated = 1..cfg.Ne
  /\ ncalls' > ncalls =>
       \E i \in (1..cfg.Ne) \ propagated :
         /\ propagated' = propagated \cup {i}
         /\ \A j \in (1..cfg.Ne) \ {i} : ens'[j] = ens[j] /\ xe'[j] = xe[j]
         /\ \E tr \in {forwardModel_r(ens[i], LocalTime(PhaseSteps(iobs), cfg.dt),
                                       cfg.par.rayleigh, cfg.par.prandtl,
                                       cfg.par.b)} :
              ens'[i] = tr[Len(tr)] /\ xe'[i] = xe[i] \o Tail(tr)

C2_BarrierBeforeUpdate == [][C2_Step]_vars

C2_Witness ==
  /\ pc = "propagate" /\ propagated = {2} /\ Len(xa) = 1
  /\ ens[1] # ens[2] /\ seg[2][1] # ens[2]

\* C3: the ensemble holds exactly Ne members after every propagation and every
\* update, and at every assimilation step H has as many rows as the
\* observation vector (the column of y) has entries.
C3_SizesFixed ==
  /\ Started => DOMAIN ens = 1..cfg.Ne /\ DOMAIN xe = 1..cfg.Ne
  /\ \A k \in 1..Len(xa) : DOMAIN xa[k] = 1..cfg.Ne
  /\ pc \notin {"reference", "observations"} =>
       \A j \in 1..Len(y) : Len(y[j]) = Len(H)
  /\ pc = "update" => Len(args.y[iobs]) = Len(args.H) /\ args.Ne = cfg.Ne

C3_Witness ==
  /\ pc = "update" /\ iobs = 2 /\ Len(H) = 2 /\ Len(args.y[iobs]) = 2
  /\ Cardinality(DOMAIN ens) = cfg.Ne

\* step s (0-based) is one of the nobs assimilation times
IsAssimilationStep(s) == s % gap = 0 /\ s \div gap \in 1..nobs

\* the integration step of the driver as a time difference
StepSize == [n |-> cfg.dt, d |-> TicksPerUnit]

\* C4: myEnKF returns xEnKF and x_ens with one entry for every integration
\* step 0..n_steps, as many as xt has, so that xt - xEnKF is defined; x_ens
\* holds one trajectory per member; the entries between assimilation times
\* and after the last one are the member's state advanced by one integration
\* step, and xEnKF is the mean of the members at every step.
C4_EveryStepRecorded ==
  /\ pc # "shape_error"
  /\ Returned =>
       /\ Len(xEnKF) = n_steps + 1 /\ Len(xEnKF) = Len(xt)
       /\ DOMAIN x_ens = 1..cfg.Ne
       /\ \A e \in 1..cfg.Ne :
            /\ Len(x_ens[e]) = n_steps + 1
            /\ \A s \in 1..n_steps :
                 ~IsAssimilationStep(s) =>
                   x_ens[e][s + 1] = RK4Step(x_ens[e][s], StepSize, cfg.par.rayleigh,
                                             cfg.par.prandtl, cfg.par.b)
       /\ \A s \in 0..n_steps :
            xEnKF[s + 1] = Mean([e \in 1..cfg.Ne |-> x_ens[e][s + 1]], cfg.Ne)

C4_Witness ==
  /\ pc = "done" /\ nobs = 1 /\ gap = 2 /\ n_steps = 3
  /\ x_ens[1] # x_ens[2]
  /\ x_ens[1][4] # x_ens[1][3] /\ x_ens[1][2] # x_ens[1][1]

\* C5: the propagation that follows the update of cycle k starts each member
\* from that member's own post-update state of cycle k, and the estimate
\* recorded at assimilation time k is the mean of the post-update ensemble of
\* cycle k.
C5_PostUpdateIsBasis ==
  /\ \A c \in calls :
       c.cycle >= 2 => Len(xa) >= c.cycle - 1 /\ c.x0 = xa[c.cycle - 1][c.member]
  /\ \A k \in 1..Len(xa) :
       /\ xm[k * gap + 1] = Mean(xa[k], cfg.Ne)
       /\ \A i \in 1..cfg.Ne : xe[i][k * gap + 1] = xa[k][i]
       /\ Returned => xEnKF[k * gap + 1] = Mean(xa[k], cfg.Ne)

C5_Witness ==
  /\ pc = "propagate" /\ iobs = 2 /\ nobs = 2 /\ propagated = {1}
  /\ xa[1][1] # xf[1] /\ xa[1][1] # Mean(xa[1], cfg.Ne)
  /\ \E c \in calls : c.cycle = 2 /\ c.member = 1 /\ c.x0 = xa[1][1]

\* the invocations of the forward model made in assimilation cycle k
CycleCalls(k) == {c \in calls : c.cycle = k}

ForecastPHt == MatMul(CovNum(xf, cfg.Ne), Transpose(H, 3), Len(H))

\* the innovation of member i in the last update, for the perturbed observation
Innovation(i) ==
  LET Hx == MatVec(H, xf[i])
  IN  [j \in 1..Len(H) |-> (y[Len(xa)][j] + eps[i][j]) - Hx[j]]

\* C7: in the update of a cycle one gain K with K (H P H^T + R) = P H^T, P the
\* sample covariance of the whole propagated ensemble, is applied to all
\* members, and member i becomes x_i + K (y_i' - H x_i), y_i' the observation
\* of this assimilation time plus the noise realization drawn for member i
\* (stated of the state the update leaves).
C7_PerturbedObservationUpdate ==
  (Len(xa) >= 1 /\ pc = "propagate" /\ propagated = {}) =>
    \A S \in {InnovCov(xf, cfg.Ne, H, R)} : \A PHt \in {ForecastPHt} :
      /\ gain.det = Det(S) /\ gain.det # 0
      /\ MatMul(gain.Kn, S, Len(H))
           = [c \in 1..3 |-> [j \in 1..Len(H) |-> gain.det * PHt[c][j]]]
      /\ DOMAIN xf = 1..cfg.Ne /\ DOMAIN eps = 1..cfg.Ne
      /\ \A i \in 1..cfg.Ne :
           /\ xf[i] = seg[i][Len(seg[i])]
           /\ \A j \in 1..Len(H) : eps[i][j] * eps[i][j] = R[j][j]
           /\ \A Kd \in {MatVec(gain.Kn, Innovation(i))} :
                xa[Len(xa)][i] = [c \in 1..3 |-> xf[i][c] + RoundDiv(Kd[c], gain.det)]

C7_Witness ==
  /\ Len(xa) = 2 /\ pc = "propagate" /\ propagated = {}
  /\ eps[1] # eps[2] /\ xa[2][1] # xf[1] /\ xa[2][2] # xf[2]
  /\ \E c \in 1..3 : \E j \in 1..Len(H) : gain.Kn[c][j] # 0

\* the members of ensemble E are the same state
Degenerate(E) == \A i, j \in DOMAIN E : E[i] = E[j]

\* C8: with sigens = 0 (P0 = 0) all members are identical at the start, after
\* every propagation and after every update; the forecast covariance and the
\* gain are zero, whatever the observation perturbations of the members are.
C8_DegenerateStaysDegenerate ==
  (cfg.sigens = 0 /\ Started) =>
    /\ \A i, j \in propagated : ens[i] = ens[j] /\ xe[i] = xe[j]
    /\ \A i, j \in (1..cfg.Ne) \ propagated : ens[i] = ens[j] /\ xe[i] = xe[j]
    /\ \A k \in 1..Len(xa) : Degenerate(xa[k])
    /\ Len(xa) >= 1 =>
         /\ Degenerate(xf) /\ xa[Len(xa)] = xf
         /\ CovNum(xf, cfg.Ne) = Zeros(3, 3)
         /\ gain.Kn = Zeros(3, Len(H))
    /\ Returned => Degenerate(x_ens)

C8_Witness ==
  /\ cfg.sigens = 0 /\ pc = "done" /\ Len(xa) = 2 /\ eps[1] # eps[2]
  /\ x_ens[1] = x_ens[2] /\ xa[1] # xa[2]

\* C9: an update whose innovation covariance H P H^T + R is singular fails the
\* run there: nothing is written, nothing is returned and no step follows;
\* any other update completes its cycle, and the run returns only after nobs
\* updates. A run ends failed at an inversion or completed, nowhere else.
C9_Step ==
  /\ pc = "update" =>
       IF Det(InnovCov(ens, cfg.Ne, H, R)) = 0
       THEN /\ pc' = "singular"
            /\ UNCHANGED << enkfVars, resultVars >>
            /\ xEnKF' = <<>> /\ x_ens' = <<>>
       ELSE pc' = "propagate" /\ iobs' = iobs + 1 /\ Len(xa') = Len(xa) + 1
  /\ pc # "singular"
  /\ pc' = "singular" => pc = "update"
  /\ pc' = "return" => Len(xa') = nobs
  /\ pc' \in {"errors", "done"} => Len(xa') = nobs /\ xEnKF' # <<>>
  /\ pc' # "shape_error"

C9_SingularIsFatal == [][C9_Step]_vars

C9_Witness ==
  /\ pc = "singular" /\ Len(xa) = 1 /\ iobs = 2 /\ xEnKF = <<>> /\ x_ens = <<>>
  /\ cfg.sigens = 1

\* tr has one column of 3 entries per entry of the time array, the first x0
IsTrajectoryFrom(tr, x0) ==
  /\ Len(tr) = Len(time) /\ Len(tr) = n_steps + 1
  /\ \A k \in 1..Len(tr) : DOMAIN tr[k] = 1..3
  /\ tr[1] = x0

\* C10: forwardModel_r returns one column of 3 entries for every entry of the
\* time array, n_steps + 1 columns on the grid of the notebook, and its
\* first column is the initial state handed to it, for every initial state,
\* parameter triple and grid.
C10_TrajectoryShape ==
  /\ pc \in {"sensitivity", "plotted"} => IsTrajectoryFrom(x1, cfg.x0)
  /\ pc = "plotted" =>
       /\ IsTrajectoryFrom(x2, <<0, 1 + cfg.epsilon_ic, 0>>)
       /\ IsTrajectoryFrom(x3, <<0, 1, 0>>)

C10_Witness ==
  /\ pc = "plotted" /\ n_steps = 3 /\ Len(x1) = 4 /\ Len(x2) = 4
  /\ x1[1] = <<1, 1, 1>> /\ x1[2] # x1[1] /\ x2[1] = <<0, 3, 0>> /\ x2[4] # x2[1]

\* the parameter triple of the run with rayleigh perturbed
PerturbedTriple == [cfg.par EXCEPT !.rayleigh = cfg.par.rayleigh + cfg.epsilon_par]

\* dX = -Pr (X - Y), dY = -X Z + r X - Y, dZ = X Y - b Z at state v
C11_RightHandSide(v, par) ==
  [c \in 1..3 |->
     IF c = 1 THEN 0 - par.prandtl * (v[1] - v[2])
     ELSE IF c = 2 THEN par.rayleigh * v[1] - v[1] * v[3] - v[2]
     ELSE v[1] * v[2] - RoundDiv(par.b.n * v[3], par.b.d)]

\* v + (hn / hd) k
C11_Advance(v, k, hn, hd) == [c \in 1..3 |-> v[c] + RoundDiv(hn * k[c], hd)]

\* the state one Runge-Kutta step of order 4 after v, for the step from
\* time[k] to time[k + 1]: four evaluations of the right-hand side
C11_OneStep(v, k, par) ==
  LET hn == time[k + 1].n * time[k].d - time[k].n * time[k + 1].d
      hd == time[k].d * time[k + 1].d
      s1 == C11_RightHandSide(v, par)
      s2 == C11_RightHandSide(C11_Advance(v, s1, hn, 2 * hd), par)
      s3 == C11_RightHandSide(C11_Advance(v, s2, hn, 2 * hd), par)
      s4 == C11_RightHandSide(C11_Advance(v, s3, hn, hd), par)
  IN  C11_Advance(v, [c \in 1..3 |-> s1[c] + 2 * s2[c] + 2 * s3[c] + s4[c]],
                  hn, 6 * hd)

\* every column of tr after the first is one step from the column before
C11_StepByStep(tr, par) ==
  \A k \in 1..(Len(tr) - 1) : tr[k + 1] = C11_OneStep(tr[k], k, par)

C12_QuiescenceIsFixed ==
  (cfg.x0 = <<0, 0, 0>> /\ pc # "lorenz") =>
    \A k \in 1..Len(x1) : x1[k] = <<0, 0, 0>>

C12_Witness ==
  /\ cfg.x0 = <<0, 0, 0>> /\ pc = "plotted" /\ n_steps = 3 /\ Len(x1) = 4
  /\ x1[4] = <<0, 0, 0>> /\ cfg.par.rayleigh = 35

C15_Step ==
  /\ cfg' = cfg
  /\ time # <<>> => time' = time
  /\ x1 # <<>> => x1' = x1
  /\ x2 # <<>> => x2' = x2 /\ x3' = x3
  /\ xt # <<>> => xt' = xt
  /\ pc = "sensitivity" => x1' = x1 /\ time' = time /\ n_steps' = n_steps
  /\ pc \in {"enkf", "propagate", "update", "return"} =>
       xt' = xt /\ y' = y /\ H' = H /\ R' = R /\ time_obs' = time_obs
  /\ pc \in {"propagate", "update", "return"} => args' = args
  /\ ncalls' > ncalls =>
       \A j \in propagated : seg'[j] = seg[j] /\ xe'[j] = xe[j]

C15_InputsAndResultsUnchanged == [][C15_Step]_vars

C15_Witness ==
  /\ pc = "plotted" /\ Len(x1) = 4 /\ x2 # x1 /\ x3 # x1 /\ x2 # x3
  /\ x1[1] = cfg.x0 /\ x1[4] # x1[1]

\* C16: the noise is drawn from a source handed over explicitly, so that the
\* same inputs give the same observations: the cell of the synthetic
\* observations run again on the same parameters and the same truth
\* produces the same y.
C16_Step == (pc = "enkf" /\ pc' = "enkf") => y' = y

C16_SameInputsSameObservations == [][C16_Step]_vars

\* the shapes of the call are the ones the filter works on
ShapesMatch ==
  /\ Len(cfg.x0ens) = 3
  /\ \A j \in 1..Len(y) : Len(y[j]) = Len(H)

C18_Scatter(E, n) ==
  [a \in 1..3 |->
     [c \in 1..3 |->
        n * n * SumTo([i \in 1..n |-> E[i][a] * E[i][c]], n)
          - n * SumTo([i \in 1..n |-> E[i][a]], n) * SumTo([i \in 1..n |-> E[i][c]], n)]]

C18_TestVectors == [1..3 -> {0 - 1, 0, 1}]

C18_Quadratic(P, v) ==
  SumTo([a \in 1..3 |-> v[a] * SumTo([c \in 1..3 |-> P[a][c] * v[c]], 3)], 3)

\* C18: the forecast error covariance of every assimilation cycle is the
\* sample covariance of the N_e propagated members about their mean with
\* N_e - 1 normalization (the gain of the cycle is built from it and R in
\* that proportion), and it is symmetric and positive semi-definite.
C18_ForecastCovariance ==
  (Len(xa) >= 1 /\ pc = "propagate" /\ propagated = {}) =>
    \A n \in {args.Ne} : \A P \in {C18_Scatter(xf, n)} :
      /\ CovNum(xf, n) = P
      /\ \A a, c \in 1..3 : P[a][c] = P[c][a]
      /\ \A v \in C18_TestVectors : C18_Quadratic(P, v) >= 0
      /\ \A S \in {[i \in 1..Len(args.H) |->
                      [j \in 1..Len(args.H) |->
                         MatMul(MatMul(args.H, P, 3), Transpose(args.H, 3),
                                Len(args.H))[i][j]
                           + n * n * (n - 1) * args.R[i][j]]]} :
           /\ gain.det = Det(S)
           /\ gain.Kn = MatMul(MatMul(P, Transpose(args.H, 3), Len(args.H)), Adj(S),
                               Len(args.H))

C18_Witness ==
  /\ Len(xa) >= 2 /\ pc = "propagate" /\ propagated = {}
  /\ args.R[1][1] > 0
  /\ \E a, c \in 1..3 : a # c /\ CovNum(xf, args.Ne)[a][c] # 0

C21_Lower(k) == <<0, 8, 15, 30, 60, 105, 180, 300, 500, 750>>[k + 1]

C21_IsIndexOf(k, v) ==
  /\ k \in 0..9
  /\ C21_Lower(k) <= v
  /\ k < 9 => v < C21_Lower(k + 1)
  /\ \A k2 \in 0..9 :
       (C21_Lower(k2) <= v /\ (k2 < 9 => v < C21_Lower(k2 + 1))) => k2 = k

\* C21: for every non-negative 3-hour range v the K index of K_calc and of
\* analyse_day is the unique k in 0..9 with lower_k <= v < lower_(k+1) for
\* the Eskdalemuir bounds, 9 from 750 on, so K = 2 exactly for v in
\* [15, 30); K_calc returns 8 indices, one per block of 180 minutes.
C21_KIndexFromTable ==
  /\ pc \in {"analyse_day", "K_done"} =>
       /\ Len(K_index) = 8
       /\ \A i \in 1..8 : C21_IsIndexOf(K_index[i], IF i = cfg.block THEN cfg.v ELSE 0)
       /\ K_index[cfg.block] = 2 <=> (15 <= cfg.v /\ cfg.v < 30)
       /\ cfg.v >= 750 => K_index[cfg.block] = 9
  /\ pc = "K_done" =>
       /\ K_X = K_index
       /\ \A i \in 1..8 : C21_IsIndexOf(K_Y[i], IF i = cfg.block THEN cfg.vy ELSE 0)

C21_Witness ==
  /\ pc = "K_done" /\ cfg.v = 15 /\ cfg.block = 8 /\ K_index[8] = 2 /\ K_X[8] = 2
  /\ K_index[7] = 0 /\ cfg.vy = 40 /\ K_Y[8] = 3

\* the Julian day number of a Gregorian calendar date
C22_JulianDay(dd) ==
  LET a == (14 - dd.month) \div 12
      yy == dd.year + 4800 - a
      mm == dd.month + 12 * a - 3
  IN  dd.day + (153 * mm + 2) \div 5 + 365 * yy + yy \div 4 - yy \div 100 + yy \div 400
        - 32045

\* the days from 8 February 1832 to the date
C22_DaysSince(dd) == C22_JulianDay(dd) - 2390222

C22_Numbered ==
  (pc = "next_day" /\ C22_DaysSince(date) >= 0) =>
    /\ bartrotday \in 1..27
    /\ bartrot >= 1
    /\ C22_DaysSince(date) = 27 * (bartrot - 1) + (bartrotday - 1)
    /\ C22_DaysSince(date) = 0 => (bartrot = 1 /\ bartrotday = 1)
    /\ bartrot_vis = bartrot /\ bartrotday_vis = bartrotday

C22_Step ==
  (pc = "bartels_rotation" /\ pc' = "next_day" /\ elapsed > 0
   /\ C22_DaysSince(date) > 0) =>
    \/ bartrotday' = bartrotday + 1 /\ bartrot' = bartrot
    \/ bartrotday = 27 /\ bartrotday' = 1 /\ bartrot' = bartrot + 1

\* C22: bartels_rotation maps 8 February 1832 to rotation 1, day 1; for every
\* date on or after it the day is in 1..27, the rotation is >= 1 and the days
\* since 8 February 1832 are 27 (rotation - 1) + (day - 1); one calendar day
\* forward either adds 1 to the day with the rotation unchanged or wraps the
\* day from 27 to 1 with the rotation increased by 1; the copies of the two
\* notebooks agree.
C22_BartelsNumbering == []C22_Numbered /\ [][C22_Step]_vars

C22_Witness ==
  /\ pc = "next_day" /\ elapsed > 0
  /\ date = [year |-> 1832, month |-> 3, day |-> 6]
  /\ bartrot = 2 /\ bartrotday = 1

\* the observed variables, and the place of an observed variable among them
C23_Observed == {ix \in 1..3 : cfg.WhichVariablesAreObserved[ix] = 1}

C23_Place(ix) == Cardinality({k \in C23_Observed : k <= ix})

C23_Selection ==
  (pc \notin {"reference", "observations", "rejected"}) =>
    /\ Len(H) = Cardinality(C23_Observed)
    /\ \A j \in 1..Len(H) :
         /\ Len(H[j]) = 3
         /\ \A ix \in 1..3 : H[j][ix] \in {0, 1}
         /\ Cardinality({ix \in 1..3 : H[j][ix] = 1}) = 1
         /\ \A ix \in 1..3 : H[j][ix] = 1 <=> (ix \in C23_Observed /\ C23_Place(ix) = j)
    /\ \A ix \in C23_Observed : Cardinality({j \in 1..Len(H) : H[j][ix] = 1}) = 1
    /\ \A ix \in (1..3) \ C23_Observed : \A j \in 1..Len(H) : H[j][ix] = 0
    /\ Started => args.H = H

C23_Step == (pc \notin {"reference", "observations"}) => H' = H

\* C23: for every 0/1 vector WhichVariablesAreObserved of length 3 the
\* driver builds H with as many rows as there are ones and 3 columns, entries
\* 0 or 1, exactly one 1 in each row, the 1 of row j in the column of the
\* j-th observed variable in increasing order, each observed variable
\* selected by exactly one row and all-zero columns for the unobserved ones;
\* H is not modified after its construction.
C23_SelectionMatrix == []C23_Selection /\ [][C23_Step]_vars

C23_Witness ==
  /\ pc = "errors" /\ cfg.WhichVariablesAreObserved = <<0, 1, 1>>
  /\ H = <<<<0, 1, 0>>, <<0, 0, 1>>>> /\ Len(xa) >= 1

\* C24: the number of assimilation times nobs the driver passes to myEnKF
\* equals the number of entries of time_obs and the number of columns of y,
\* for every T, dt and dtobs with dtobs >= dt: y has exactly one column per
\* assimilation time counted by nobs.
C24_OneColumnPerAssimilationTime ==
  (pc \notin {"reference", "observations", "rejected"}) =>
    /\ cfg.dtobs >= cfg.dt
    /\ nobs = Len(time_obs)
    /\ nobs = Len(y)
    /\ Started => args.nobs = nobs

\* the integration step (from 0) of observation column j (from 1)
C25_StepOf(j) == j * gap

\* C25: for gap >= 1 the driver takes no observation at step 0; observation
\* column j (0-based) is H applied to the truth at integration step
\* (j+1) gap plus noise, time_obs[j] is the time of that step, the
\* observation steps are strictly increasing multiples of gap not exceeding
\* n_steps, and consecutive assimilation times are gap steps apart.
C25_ObservationSteps ==
  (pc \notin {"reference", "observations", "rejected"} /\ gap >= 1) =>
    /\ Len(time_obs) = Len(y)
    /\ \A j \in 1..Len(y) :
         /\ C25_StepOf(j) >= gap /\ C25_StepOf(j) <= n_steps
         /\ time_obs[j] = time[C25_StepOf(j) + 1]
         /\ time_obs[j] # time[1]
         /\ Len(y[j]) = Len(H)
         /\ \A i \in 1..Len(H) :
              \E e \in {0 - cfg.sigobs, cfg.sigobs} :
                y[j][i] = SumTo([c \in 1..3 |-> H[i][c] * xt[C25_StepOf(j) + 1][c]], 3) + e
         /\ j > 1 => C25_StepOf(j) - C25_StepOf(j - 1) = gap

C25_Witness ==
  /\ pc = "enkf" /\ gap = 1 /\ Len(y) = 3 /\ n_steps = 3
  /\ xt[2] # xt[1] /\ xt[3] # xt[2] /\ xt[4] # xt[3]
  /\ cfg.WhichVariablesAreObserved = <<1, 0, 1>>

\* C26: for every total time T and step size dt, the dt the driver passes to
\* myEnKF equals the uniform spacing T / n_steps of the grid of n_steps + 1
\* points from 0 to T on which the truth was integrated, and gap
\* integration steps span exactly dtobs (gap dt = dtobs), so that truth,
\* observations and filter advance on the same time grid.
C26_SameTimeGrid ==
  Started =>
    /\ Len(time) = n_steps + 1
    /\ time[1].n = 0
    /\ time[n_steps + 1].n * TicksPerUnit = cfg.T * time[n_steps + 1].d
    /\ args.dt * n_steps = cfg.T
    /\ \A k \in 1..n_steps :
         \A h \in {TimeDiff(time[k], time[k + 1])} : h.n * TicksPerUnit = args.dt * h.d
    /\ args.gap * args.dt = cfg.dtobs

\* the rows of the table asked for, in the order of the table
C27_IsAsked(r) == r.year = cfg.year /\ r.Z # 88888

C27_Asked == SelectSeq(cfg.table, C27_IsAsked)

\* C27: load_data(year) returns exactly the rows of the annual-means table
\* whose year column equals the argument year, without the rows with
\* Z = 88888, for every value of year; each returned row has
\* Latitude = 90 - Colat and a Longitude in [-180, 180) congruent to Long
\* modulo 360.
C27_RowsOfTheYearAsked ==
  pc = "loaded" =>
    /\ Len(input_data) = Len(C27_Asked)
    /\ \A k \in 1..Len(input_data) :
         /\ input_data[k].year = C27_Asked[k].year
         /\ input_data[k].Colat = C27_Asked[k].Colat
         /\ input_data[k].Long = C27_Asked[k].Long
         /\ input_data[k].Z = C27_Asked[k].Z
         /\ input_data[k].Latitude = 90 - input_data[k].Colat
         /\ input_data[k].Longitude >= 0 - 180 /\ input_data[k].Longitude < 180
         /\ (input_data[k].Longitude - input_data[k].Long) % 360 = 0

C28_Loop ==
  /\ pc = "while" =>
       /\ step <= MaxStep + 1
       /\ Len(track) = step + 1
       /\ \A k \in 1..(Len(track) - 1) : track[k][1] >= 6371200
       /\ step >= 1 => track[Len(track)] = <<newrad, newth, newph>>
  /\ pc = "printed" =>
       /\ step <= MaxStep + 1
       /\ Len(track) = step + 1
       /\ step > MaxStep \/ newrad < 6371200
       /\ \A k \in 1..(Len(track) - 1) : track[k][1] >= 6371200
       /\ newrad < 6371200 =>
            /\ track[Len(track)] = <<newrad, newth, newph>>
            /\ {k \in 1..Len(track) : track[k][1] < 6371200} = {Len(track)}
            /\ conjugate = <<RoundDiv(track[Len(track)][2] * 180, 3142),
                              RoundDiv(track[Len(track)][3] * 180, 3142) % 360>>

C28_Step == (pc = "while" /\ pc' = "while") => Len(track') = Len(track) + 1

\* C28: the field line tracing loop terminates for every start point and
\* step size: it executes at most maxstep + 1 iterations, each iteration
\* appends exactly one point to track (len(track) = step + 1 on exit), and
\* it stops at the first iteration that yields a point with radius below r0
\* or once step exceeds maxstep; when the radius dropped below r0 the
\* conjugate point reported is the last point of track and the only traced
\* point below r0.
C28_TracingTerminates == []C28_Loop /\ [][C28_Step]_vars /\ <>(pc = "printed")

C28_Witness ==
  /\ pc = "printed" /\ step = 3 /\ newrad < 6371200 /\ Len(track) = 4
  /\ track[2][1] > 6371200 /\ newth # track[1][2] /\ newph # track[1][3]

\* (ph1 - ph2) mod 360, the representative in 0..359
C29_D == CHOOSE d \in 0..359 : \E k \in (0 - 2 * MaxTurns - 1)..(2 * MaxTurns + 1) :
                                 cfg.ph1 - cfg.ph2 = d + 360 * k

\* C29: for all longitudes ph1 and ph2 in degrees (positive, negative or
\* beyond +-360) dlong returns the short-route difference: a value in
\* [0, 180] equal to min(d, 360 - d) with d = (ph1 - ph2) mod 360; it is
\* symmetric, zero when the arguments differ by a multiple of 360, and
\* unchanged when 360 is added to either argument.
C29_ShortRoute ==
  pc = "dlong_returned" =>
    /\ dph >= 0 /\ dph <= 180
    /\ dph = (IF C29_D < 360 - C29_D THEN C29_D ELSE 360 - C29_D)
    /\ dph = dlong(cfg.ph2, cfg.ph1)
    /\ C29_D = 0 => dph = 0
    /\ dph = dlong(cfg.ph1 + 360, cfg.ph2)
    /\ dph = dlong(cfg.ph1, cfg.ph2 + 360)

C29_Witness ==
  /\ pc = "dlong_returned" /\ cfg.ph1 = 0 - 359 /\ cfg.ph2 = 540 /\ dph = 179

\* C30: when the loop of geomagnetic_model over the data triples has
\* finished, rows 3i, 3i+1 and 3i+2 of lhs (counted from 0) hold the X, Y
\* and Z lines of datum i, in the interleaved order of rhs, although the Z
\* line is written to every row from iln+2 to the end of the matrix.
C30_RowsInterleaved ==
  /\ pc = "lstsq" =>
       /\ Len(lhs) = 3 * Len(cfg.data) /\ Len(rhs) = Len(lhs)
       /\ \A i \in 1..Len(cfg.data) :
            /\ lhs[3 * i - 2] = cfg.data[i].x /\ rhs[3 * i - 2] = cfg.data[i].xyz[1]
            /\ lhs[3 * i - 1] = cfg.data[i].y /\ rhs[3 * i - 1] = cfg.data[i].xyz[2]
            /\ lhs[3 * i] = cfg.data[i].z /\ rhs[3 * i] = cfg.data[i].xyz[3]
  /\ pc = "lines" /\ iln > 0 =>
       \A j \in (iln + 1)..Len(lhs) : lhs[j] = cfg.data[iln \div 3].z

C30_Witness ==
  /\ pc = "lstsq" /\ Len(cfg.data) = 2 /\ iln = 6
  /\ cfg.data[1].z # cfg.data[2].z
  /\ lhs[3] = cfg.data[1].z /\ lhs[6] = cfg.data[2].z
  /\ lhs[4] = cfg.data[2].x /\ lhs[5] = cfg.data[2].y

====
